---- MODULE Spec2Model ----
(***************************************************************************)
(* Model of the measured splay tree (src/src/main.rs) and of the Rope      *)
(* built on it.  A SplayTree<StringMeasure, MeasuredString> is a value:    *)
(* Leaf is the empty tuple, Fork(Box<SplayTreeFork>) the one-element tuple *)
(* holding the fork record.                                                *)
(***************************************************************************)
EXTENDS Integers, Sequences, FiniteSets

\* stack: the trees (or ropes) the caller holds, the one made last on top.
\* last:  the call made last, with the arguments it consumed and its result.
\* made:  the number of Rope::from calls made so far.
VARIABLES stack, last, made

vars == <<stack, last, made>>

-----------------------------------------------------------------------------
(* Bounds of the exploration *)

\* Total number of elements held by the trees of the stack (Spec).
MaxNodes == 4
\* Number of trees held at once.
MaxDepth == 3
\* Prefix character counts up to which a split predicate is tabulated.
PredCut == 2
\* Number of Rope::from calls in a run of RopeSpec.
MaxMade == 4

\* const CHUNK_SIZE: usize = 4096
CHUNK_SIZE == 4096

-----------------------------------------------------------------------------
(* Strings *)
(* A String is held run-length encoded: the sequence of its maximal runs
   <<c, n>>, n >= 1 copies of the character c, no two neighbouring runs of
   the same character.  Two strings are equal exactly when their encodings
   are. *)

\* The empty String.
EmptyStr == <<>>

\* String + &str, and String::push_str.
Concat(s, t) ==
    IF s = <<>> THEN t
    ELSE IF t = <<>> THEN s
    ELSE IF s[Len(s)][1] = t[1][1]
    THEN SubSeq(s, 1, Len(s) - 1)
         \o <<<<t[1][1], s[Len(s)][2] + t[1][2]>>>>
         \o Tail(t)
    ELSE s \o t

\* The String of a sequence of characters.
RECURSIVE Str(_)
Str(cs) == IF cs = <<>> THEN EmptyStr ELSE Concat(<<<<cs[1], 1>>>>, Str(Tail(cs)))

\* The String of n copies of the character c.
Repeat(c, n) == IF n = 0 THEN EmptyStr ELSE <<<<c, n>>>>

\* Characters whose UTF-8 encoding takes two bytes; the others take one.
TwoByteChars == {"e_acute"}
Utf8Len(c) == IF c \in TwoByteChars THEN 2 ELSE 1

\* String::len(): the length in bytes.
RECURSIVE StrLen(_)
StrLen(s) ==
    IF s = <<>> THEN 0 ELSE s[1][2] * Utf8Len(s[1][1]) + StrLen(Tail(s))

\* s.chars().count()
RECURSIVE CharCount(_)
CharCount(s) == IF s = <<>> THEN 0 ELSE s[1][2] + CharCount(Tail(s))

\* s.match_indices('\n').count()
RECURSIVE NewlineCount(_)
NewlineCount(s) ==
    IF s = <<>>
    THEN 0
    ELSE (IF s[1][1] = "\n" THEN s[1][2] ELSE 0) + NewlineCount(Tail(s))

\* String::is_empty
StrIsEmpty(s) == s = EmptyStr

-----------------------------------------------------------------------------
(* StringMeasure *)

\* Zero for StringMeasure
zero == [len |-> 0, char_count |-> 0, newline_count |-> 0]

\* Add for StringMeasure
MAdd(a, b) ==
    [len |-> a.len + b.len,
     char_count |-> a.char_count + b.char_count,
     newline_count |-> a.newline_count + b.newline_count]

(* MeasuredString *)

\* From<String> for MeasuredString
MeasuredString_from(s) ==
    [string |-> s, char_count |-> CharCount(s), newline_count |-> NewlineCount(s)]

\* StringMeasure::from(&MeasuredString) / Measured for MeasuredString
StringMeasure_from(s) ==
    [len |-> StrLen(s.string),
     char_count |-> s.char_count,
     newline_count |-> s.newline_count]

\* Mutant of MeasuredString_add: the two texts joined the wrong way round.
MeasuredString_add_reversed(a, b) ==
    [string |-> Concat(b.string, a.string),
     char_count |-> a.char_count + b.char_count,
     newline_count |-> a.newline_count + b.newline_count]

\* Add for MeasuredString
MeasuredString_add(a, b) ==
    [string |-> Concat(a.string, b.string),
     char_count |-> a.char_count + b.char_count,
     newline_count |-> a.newline_count + b.newline_count]

-----------------------------------------------------------------------------
(* SplayTree *)

Leaf == <<>>

\* Option
None == <<>>
Some(v) == <<v>>

\* Measured for SplayTree
measure(t) == IF t = Leaf THEN zero ELSE t[1].measure

\* SplayTree::fork_measure
fork_measure(l, t, r, m) ==
    <<[left |-> l, element |-> t, right |-> r, measure |-> m]>>

\* Mutant of fork: the element's own measure is left out of the cache.
fork_no_element(l, t, r) ==
    fork_measure(l, t, r, MAdd(measure(l), measure(r)))

\* SplayTree::fork
fork(l, t, r) ==
    fork_measure(l, t, r, MAdd(MAdd(measure(l), StringMeasure_from(t)), measure(r)))

\* SplayTree::is_empty
is_empty(t) == t = Leaf

\* From<T> for SplayTree
SplayTree_from(t) == fork_measure(Leaf, t, Leaf, StringMeasure_from(t))

\* Mutant of uncons_loop: the rotation forgets the right subtree of the left
\* fork it steps into.
RECURSIVE uncons_loop_lossy(_)
uncons_loop_lossy(f) ==
    IF f.left = Leaf
    THEN Some(<<f.element, f.right>>)
    ELSE LET left_fork == f.left[1]
         IN  uncons_loop_lossy([left |-> left_fork.left,
                                element |-> left_fork.element,
                                right |-> fork(Leaf, f.element, f.right),
                                measure |-> f.measure])

\* The loop of SplayTree::uncons, on the fork it rotates.
RECURSIVE uncons_loop(_)
uncons_loop(f) ==
    IF f.left = Leaf
    THEN Some(<<f.element, f.right>>)
    ELSE LET left_fork == f.left[1]
         IN  uncons_loop([left |-> left_fork.left,
                          element |-> left_fork.element,
                          right |-> fork(left_fork.right, f.element, f.right),
                          measure |-> f.measure])

\* SplayTree::uncons
uncons(t) == IF t = Leaf THEN None ELSE uncons_loop(t[1])

\* The loop of SplayTree::unsnoc.
RECURSIVE unsnoc_loop(_)
unsnoc_loop(f) ==
    IF f.right = Leaf
    THEN Some(<<f.left, f.element>>)
    ELSE LET right_fork == f.right[1]
         IN  unsnoc_loop([left |-> fork(f.left, f.element, right_fork.left),
                          element |-> right_fork.element,
                          right |-> right_fork.right,
                          measure |-> f.measure])

\* SplayTree::unsnoc
unsnoc(t) == IF t = Leaf THEN None ELSE unsnoc_loop(t[1])

\* The loop of Add for SplayTree, on the two forks it walks.
RECURSIVE add_loop(_, _)
add_loop(left_fork, right_fork) ==
    IF left_fork.right = Leaf
    THEN fork_measure(left_fork.left,
                      left_fork.element,
                      fork_measure(right_fork.left,
                                   right_fork.element,
                                   right_fork.right,
                                   right_fork.measure),
                      MAdd(left_fork.measure, right_fork.measure))
    ELSE IF right_fork.left = Leaf
    THEN fork_measure(fork_measure(left_fork.left,
                                   left_fork.element,
                                   left_fork.right,
                                   left_fork.measure),
                      right_fork.element,
                      right_fork.right,
                      MAdd(left_fork.measure, right_fork.measure))
    ELSE LET mid_left_fork == left_fork.right[1]
             mid_right_fork == right_fork.left[1]
         IN  add_loop([left |-> fork(left_fork.left,
                                     left_fork.element,
                                     mid_left_fork.left),
                       element |-> mid_left_fork.element,
                       right |-> mid_left_fork.right,
                       measure |-> left_fork.measure],
                      [left |-> mid_right_fork.left,
                       element |-> mid_right_fork.element,
                       right |-> fork(mid_right_fork.right,
                                      right_fork.element,
                                      right_fork.right),
                       measure |-> right_fork.measure])

\* Mutant of SplayTree_add: the two forks are walked in the wrong order.
SplayTree_add_swapped(lhs, rhs) ==
    IF lhs = Leaf THEN rhs
    ELSE IF rhs = Leaf THEN lhs
    ELSE add_loop(rhs[1], lhs[1])

\* Add for SplayTree
SplayTree_add(lhs, rhs) ==
    IF lhs = Leaf THEN rhs
    ELSE IF rhs = Leaf THEN lhs
    ELSE add_loop(lhs[1], rhs[1])

-----------------------------------------------------------------------------
(* Split *)

\* A predicate Fn(&StringMeasure) -> bool: a table over the character counts
\* up to PredCut and one answer for every longer prefix.
Preds == [trueAt : SUBSET (0..PredCut), above : BOOLEAN]

pred(p, m) == IF m.char_count <= PredCut THEN m.char_count \in p.trueAt ELSE p.above

\* SplitResult
NonMonotonic(l, r) == [tag |-> "NonMonotonic", left |-> l, right |-> r]
LeftOf(t) == [tag |-> "LeftOf", tree |-> t]
RightOf(t) == [tag |-> "RightOf", tree |-> t]
Inside(f) == [tag |-> "Inside", fork |-> f]

\* Mutant of split_leaf: the no-boundary cases collapse to an empty result.
split_leaf_dropping(p, v, left, right) ==
    IF left = Leaf /\ right = Leaf
    THEN IF pred(p, v) THEN RightOf(Leaf) ELSE LeftOf(Leaf)
    ELSE IF left = Leaf THEN LeftOf(Leaf)
    ELSE IF right = Leaf THEN RightOf(Leaf)
    ELSE NonMonotonic(left, right)

\* The Leaf arm of SplayTree::split.
split_leaf(p, v, left, right) ==
    IF left = Leaf /\ right = Leaf
    THEN IF pred(p, v) THEN RightOf(Leaf) ELSE LeftOf(Leaf)
    ELSE IF left = Leaf THEN LeftOf(right)
    ELSE IF right = Leaf THEN RightOf(left)
    ELSE NonMonotonic(left, right)

\* Mutant of split_loop: on the way right the running prefix is advanced
\* past the left subtree only, not past the element.
RECURSIVE split_loop_stale_prefix(_, _, _, _, _)
split_loop_stale_prefix(p, v, left, tree, right) ==
    IF tree = Leaf
    THEN split_leaf(p, v, left, right)
    ELSE LET f == tree[1]
             vl == MAdd(v, measure(f.left))
             vla == MAdd(vl, StringMeasure_from(f.element))
         IN  IF pred(p, vl)
             THEN split_loop_stale_prefix(
                      p, v, left, f.left,
                      SplayTree_add(SplayTree_add(SplayTree_from(f.element),
                                                  f.right),
                                    right))
             ELSE IF pred(p, vla)
             THEN Inside([left |-> SplayTree_add(left, f.left),
                          element |-> f.element,
                          right |-> SplayTree_add(f.right, right),
                          measure |-> MAdd(MAdd(measure(left), f.measure),
                                           measure(right))])
             ELSE split_loop_stale_prefix(
                      p, vl,
                      SplayTree_add(SplayTree_add(left, f.left),
                                    SplayTree_from(f.element)),
                      f.right, right)

\* The loop of SplayTree::split.
RECURSIVE split_loop(_, _, _, _, _)
split_loop(p, v, left, tree, right) ==
    IF tree = Leaf
    THEN split_leaf(p, v, left, right)
    ELSE LET f == tree[1]
             vl == MAdd(v, measure(f.left))
             vla == MAdd(vl, StringMeasure_from(f.element))
         IN  IF pred(p, vl)
             THEN split_loop(p, v, left, f.left,
                             SplayTree_add(SplayTree_add(SplayTree_from(f.element),
                                                         f.right),
                                           right))
             ELSE IF pred(p, vla)
             THEN Inside([left |-> SplayTree_add(left, f.left),
                          element |-> f.element,
                          right |-> SplayTree_add(f.right, right),
                          measure |-> MAdd(MAdd(measure(left), f.measure),
                                           measure(right))])
             ELSE split_loop(p, vla,
                             SplayTree_add(SplayTree_add(left, f.left),
                                           SplayTree_from(f.element)),
                             f.right, right)

\* SplayTree::split
split(t, p) == split_loop(p, zero, Leaf, t, Leaf)

-----------------------------------------------------------------------------
(* Iteration *)

Element(e) == [kind |-> "Element", val |-> e]
Tree(t) == [kind |-> "Tree", val |-> t]

\* SplayTreeIterator::next: the item returned and the todo stack left.
RECURSIVE next(_)
next(todo) ==
    IF todo = <<>>
    THEN [item |-> None, todo |-> todo]
    ELSE LET item == todo[Len(todo)]
             rest == SubSeq(todo, 1, Len(todo) - 1)
         IN  IF item.kind = "Element"
             THEN [item |-> Some(item.val), todo |-> rest]
             ELSE IF item.val = Leaf
             THEN next(rest)
             ELSE LET f == item.val[1]
                  IN  next(rest \o <<Tree(f.right), Element(f.element), Tree(f.left)>>)

\* From<&SplayTree> for SplayTreeIterator
SplayTreeIterator_from(t) == <<Tree(t)>>

\* The elements an iterator yields until next() returns None.
RECURSIVE collect(_)
collect(todo) ==
    LET n == next(todo)
    IN  IF n.item = None THEN <<>> ELSE <<n.item[1]>> \o collect(n.todo)

\* SplayTree::iter, run to the end.
iter(t) == collect(SplayTreeIterator_from(t))

-----------------------------------------------------------------------------
(* Rope *)

\* Rope::new
Rope_new == Leaf

\* From<String> for Rope
Rope_from(s) ==
    IF StrIsEmpty(s) THEN Leaf ELSE SplayTree_from(MeasuredString_from(s))

\* The body of the for loop of Rope::to_string, over the chunks left.
RECURSIVE push_all(_, _)
push_all(result, chunks) ==
    IF chunks = <<>>
    THEN result
    ELSE push_all(Concat(result, chunks[1].string), Tail(chunks))

\* Rope::to_string
Rope_to_string(r) == push_all(EmptyStr, iter(r))

\* Mutant of Rope_add: the junction chunks are never merged.
Rope_add_unmerged(left_tree, right_tree) ==
    SplayTree_add(left_tree, right_tree)

\* Mutant of Rope_add: the junction chunks merge only strictly below
\* CHUNK_SIZE.
Rope_add_strict(left_tree, right_tree) ==
    LET l == unsnoc(left_tree)
        r == uncons(right_tree)
    IN  IF l = None \/ r = None THEN SplayTree_add(left_tree, right_tree)
        ELSE IF StrLen(l[1][2].string) + StrLen(r[1][1].string) < CHUNK_SIZE
        THEN SplayTree_add(
                 SplayTree_add(l[1][1],
                               SplayTree_from(MeasuredString_add(l[1][2], r[1][1]))),
                 r[1][2])
        ELSE SplayTree_add(
                 SplayTree_add(l[1][1],
                               SplayTree_add(SplayTree_from(l[1][2]),
                                             SplayTree_from(r[1][1]))),
                 r[1][2])

\* Add for Rope
Rope_add(left_tree, right_tree) ==
    LET l == unsnoc(left_tree)
        r == uncons(right_tree)
    IN  IF l = None /\ r = None THEN Rope_new
        ELSE IF r = None
        THEN SplayTree_add(l[1][1], SplayTree_from(l[1][2]))
        ELSE IF l = None
        THEN SplayTree_add(SplayTree_from(r[1][1]), r[1][2])
        ELSE LET left == l[1][1]
                 left_str == l[1][2]
                 right_str == r[1][1]
                 right == r[1][2]
             IN  IF StrLen(left_str.string) + StrLen(right_str.string) <= CHUNK_SIZE
                 THEN SplayTree_add(
                          SplayTree_add(left,
                                        SplayTree_from(
                                            MeasuredString_add(left_str, right_str))),
                          right)
                 ELSE SplayTree_add(
                          SplayTree_add(left,
                                        SplayTree_add(SplayTree_from(left_str),
                                                      SplayTree_from(right_str))),
                          right)

-----------------------------------------------------------------------------
(* The programs explored *)

\* The element texts the tree operations are run on: one of measure zero and
\* one of one character in two bytes.
TreeStrings == {EmptyStr, Str(<<"e_acute">>)}

Hello == Str(<<"H", "e", "l", "l", "o">>)
World == Str(<<",", " ", "w", "o", "r", "l", "d", "!", "!">>)

\* The texts ropes are built from; the long one and Hello fill a chunk
\* exactly, the long one and World overflow it.
RopeStrings == {EmptyStr, Hello, World, Repeat("x", CHUNK_SIZE - StrLen(Hello))}

\* Number of elements of a tree.
RECURSIVE Size(_)
Size(t) == IF t = Leaf THEN 0 ELSE 1 + Size(t[1].left) + Size(t[1].right)

RECURSIVE TotalSize(_)
TotalSize(s) == IF s = <<>> THEN 0 ELSE Size(s[1]) + TotalSize(Tail(s))

\* The stack without its top n trees.
Below(n) == SubSeq(stack, 1, Len(stack) - n)
Top == stack[Len(stack)]
Second == stack[Len(stack) - 1]

\* No call is on record: the caller has let go of the last call's values.
NoCall == [op |-> "none"]
Idle == last = NoCall

Init ==
    /\ stack = <<>>
    /\ last = NoCall
    /\ made = 0

\* The record of the last call (its consumed arguments and its result) goes
\* out of scope; the trees kept on the stack stay.
Drop ==
    /\ ~Idle
    /\ last' = NoCall
    /\ UNCHANGED <<stack, made>>

\* let t = SplayTree::from(MeasuredString::from(s))
From(s) ==
    /\ Idle
    /\ Len(stack) < MaxDepth
    /\ TotalSize(stack) < MaxNodes
    /\ LET e == MeasuredString_from(s)
           t == SplayTree_from(e)
       IN  /\ stack' = Append(stack, t)
           /\ last' = [op |-> "from", e |-> e, res |-> t]
    /\ UNCHANGED made

\* let t = a + b
Add ==
    /\ Idle
    /\ Len(stack) >= 2
    /\ LET t == SplayTree_add(Second, Top)
       IN  /\ stack' = Append(Below(2), t)
           /\ last' = [op |-> "add", a |-> Second, b |-> Top, res |-> t]
    /\ UNCHANGED made

\* let t = b + a, the tree made last on the left
AddFlipped ==
    /\ Idle
    /\ Len(stack) >= 2
    /\ LET t == SplayTree_add(Top, Second)
       IN  /\ stack' = Append(Below(2), t)
           /\ last' = [op |-> "add", a |-> Top, b |-> Second, res |-> t]
    /\ UNCHANGED made

\* let r = t.uncons(); the remainder, when there is one, is kept.
Uncons ==
    /\ Idle
    /\ Len(stack) >= 1
    /\ LET r == uncons(Top)
       IN  /\ stack' = IF r = None THEN Below(1) ELSE Append(Below(1), r[1][2])
           /\ last' = [op |-> "uncons", arg |-> Top, res |-> r]
    /\ UNCHANGED made

\* let r = t.unsnoc(); the remainder, when there is one, is kept.
Unsnoc ==
    /\ Idle
    /\ Len(stack) >= 1
    /\ LET r == unsnoc(Top)
       IN  /\ stack' = IF r = None THEN Below(1) ELSE Append(Below(1), r[1][1])
           /\ last' = [op |-> "unsnoc", arg |-> Top, res |-> r]
    /\ UNCHANGED made

\* The trees a SplitResult holds, left to right.
Parts(r) ==
    IF r.tag = "Inside" THEN <<r.fork.left, r.fork.right>>
    ELSE IF r.tag = "NonMonotonic" THEN <<r.left, r.right>>
    ELSE <<r.tree>>

\* let r = t.split(p); the trees of the result are kept.
Split(p) ==
    /\ Idle
    /\ Len(stack) >= 1
    /\ Len(stack) < MaxDepth
    /\ LET r == split(Top, p)
       IN  /\ stack' = Below(1) \o Parts(r)
           /\ last' = [op |-> "split", arg |-> Top, p |-> p, res |-> r]
    /\ UNCHANGED made

\* let r = Rope::from(s)
RopeFrom(s) ==
    /\ Idle
    /\ made < MaxMade
    /\ Len(stack) < MaxDepth
    /\ LET r == Rope_from(s)
       IN  /\ stack' = Append(stack, r)
           /\ last' = [op |-> "rope_from", s |-> s, res |-> r]
    /\ made' = made + 1

\* let r = a + b, on ropes
RopeAdd ==
    /\ Idle
    /\ Len(stack) >= 2
    /\ LET r == Rope_add(Second, Top)
       IN  /\ stack' = Append(Below(2), r)
           /\ last' = [op |-> "rope_add", a |-> Second, b |-> Top, res |-> r]
    /\ UNCHANGED made

\* main: the rope of "Hello" + the rope of ", world!!", and the text printed.
main ==
    /\ Idle
    /\ stack = <<>>
    /\ made + 2 <= MaxMade
    /\ LET r == Rope_add(Rope_from(Hello), Rope_from(World))
       IN  /\ stack' = <<r>>
           /\ last' = [op |-> "main", res |-> r, printed |-> Rope_to_string(r)]
    /\ made' = made + 2

Next ==
    \/ \E s \in TreeStrings : From(s)
    \/ Add
    \/ AddFlipped
    \/ Uncons
    \/ Unsnoc
    \/ \E p \in Preds : Split(p)
    \/ Drop

Spec == Init /\ [][Next]_vars

RopeNext ==
    \/ \E s \in RopeStrings : RopeFrom(s)
    \/ RopeAdd
    \/ main
    \/ Uncons
    \/ Drop

RopeSpec == Init /\ [][RopeNext]_vars

-----------------------------------------------------------------------------
(* Vocabulary of the properties *)

\* The measure of a sequence of elements, summed from scratch.
RECURSIVE SumMeasures(_)
SumMeasures(es) ==
    IF es = <<>>
    THEN zero
    ELSE MAdd(StringMeasure_from(es[1]), SumMeasures(Tail(es)))

\* The measure of the first i elements.
Prefix(es, i) == SumMeasures(SubSeq(es, 1, i))

\* p never goes from true back to false along the prefixes of es.
Monotonic(p, es) ==
    \A i, j \in 0..Len(es) :
        (i < j /\ pred(p, Prefix(es, i))) => pred(p, Prefix(es, j))

\* Every Fork of t caches measure(left) + measure(element) + measure(right).
RECURSIVE WellMeasured(_)
WellMeasured(t) ==
    \/ t = Leaf
    \/ /\ t[1].measure = MAdd(MAdd(measure(t[1].left),
                                   StringMeasure_from(t[1].element)),
                              measure(t[1].right))
       /\ WellMeasured(t[1].left)
       /\ WellMeasured(t[1].right)

\* The in-order content of a SplitResult.
Content(r) ==
    IF r.tag = "Inside"
    THEN iter(r.fork.left) \o <<r.fork.element>> \o iter(r.fork.right)
    ELSE IF r.tag = "NonMonotonic" THEN iter(r.left) \o iter(r.right)
    ELSE iter(r.tree)

-----------------------------------------------------------------------------
(* C1 *)

\* C1: concatenation preserves order: the in-order sequence of a + b is the
\* in-order sequence of a followed by that of b.
AddPreservesOrder ==
    last.op = "add" => iter(last.res) = iter(last.a) \o iter(last.b)

\* Both spines had structure, so the loop of add absorbed a node of each.
AddWalkedSpines ==
    /\ last.op = "add"
    /\ last.a # Leaf /\ last.b # Leaf
    /\ last.a[1].right # Leaf /\ last.b[1].left # Leaf
    /\ iter(last.a) # iter(last.b)

-----------------------------------------------------------------------------
(* C2 *)

\* C2: every Fork of every tree produced by from, +, uncons, unsnoc and split,
\* the trees of a SplitResult and the Inside fork included, caches
\* measure(left) + measure(element) + measure(right).
CachedMeasureInvariant ==
    /\ \A i \in DOMAIN stack : WellMeasured(stack[i])
    /\ last.op \in {"from", "add"} => WellMeasured(last.res)
    /\ (last.op = "uncons" /\ last.res # None) => WellMeasured(last.res[1][2])
    /\ (last.op = "unsnoc" /\ last.res # None) => WellMeasured(last.res[1][1])
    /\ last.op = "split" =>
           IF last.res.tag = "Inside"
           THEN WellMeasured(<<last.res.fork>>)
           ELSE IF last.res.tag = "NonMonotonic"
           THEN WellMeasured(last.res.left) /\ WellMeasured(last.res.right)
           ELSE WellMeasured(last.res.tree)

\* A split answered Inside with trees on both sides of the element.
InsideForkBuilt ==
    /\ last.op = "split"
    /\ last.res.tag = "Inside"
    /\ Size(last.res.fork.left) >= 2
    /\ Size(last.res.fork.right) >= 1
    /\ measure(<<last.res.fork>>).char_count >= 2

-----------------------------------------------------------------------------
(* C3 *)

\* C3: for a monotonic p with p(zero) false and p(measure(s)) true, split
\* answers Inside(left, elem, right): elem is the first element whose inclusive
\* prefix satisfies p, left is what precedes it, right what follows it, p is
\* false of measure(left) and true of measure(left) + measure(elem).
SplitFindsBoundary ==
    (/\ last.op = "split"
     /\ Monotonic(last.p, iter(last.arg))
     /\ ~pred(last.p, zero)
     /\ pred(last.p, measure(last.arg)))
    => /\ last.res.tag = "Inside"
       /\ LET es == iter(last.arg)
              f == last.res.fork
          IN  \E k \in 1..Len(es) :
                  /\ pred(last.p, Prefix(es, k))
                  /\ \A j \in 1..(k - 1) : ~pred(last.p, Prefix(es, j))
                  /\ f.element = es[k]
                  /\ iter(f.left) = SubSeq(es, 1, k - 1)
                  /\ iter(f.right) = SubSeq(es, k + 1, Len(es))
                  /\ ~pred(last.p, measure(f.left))
                  /\ pred(last.p, MAdd(measure(f.left), StringMeasure_from(f.element)))

\* A monotonic split whose boundary lies strictly inside a tree of four.
BoundaryInsideTree ==
    /\ last.op = "split"
    /\ Monotonic(last.p, iter(last.arg))
    /\ ~pred(last.p, zero)
    /\ pred(last.p, measure(last.arg))
    /\ Size(last.arg) >= 4
    /\ last.res.tag = "Inside"
    /\ last.res.fork.left # Leaf
    /\ last.res.fork.right # Leaf

-----------------------------------------------------------------------------
(* C4 *)

\* C4: uncons is None exactly on the empty tree; otherwise it gives the first
\* element and a rest with from(fst) + rest equal to s in content and measure.
\* unsnoc is the mirror image.
UnconsUnsnocRoundTrip ==
    /\ last.op = "uncons" =>
           /\ (last.res = None) <=> (last.arg = Leaf)
           /\ last.arg # Leaf =>
                  LET fst == last.res[1][1]
                      rest == last.res[1][2]
                      back == SplayTree_add(SplayTree_from(fst), rest)
                  IN  /\ fst = iter(last.arg)[1]
                      /\ iter(back) = iter(last.arg)
                      /\ measure(back) = measure(last.arg)
    /\ last.op = "unsnoc" =>
           /\ (last.res = None) <=> (last.arg = Leaf)
           /\ last.arg # Leaf =>
                  LET rest == last.res[1][1]
                      lst == last.res[1][2]
                      back == SplayTree_add(rest, SplayTree_from(lst))
                  IN  /\ lst = iter(last.arg)[Len(iter(last.arg))]
                      /\ iter(back) = iter(last.arg)
                      /\ measure(back) = measure(last.arg)

\* uncons rotated its way down a left spine to an element that differs from
\* the root's.
UnconsDescended ==
    /\ last.op = "uncons"
    /\ last.arg # Leaf
    /\ last.arg[1].left # Leaf
    /\ last.res[1][1] # last.arg[1].element
    /\ last.res[1][2] # Leaf

-----------------------------------------------------------------------------
(* C5 *)

\* C5: a predicate that is non-monotonic over the tree's prefix measures makes
\* split answer NonMonotonic.
NonMonotonicSurfaced ==
    (last.op = "split" /\ ~Monotonic(last.p, iter(last.arg)))
    => last.res.tag = "NonMonotonic"

-----------------------------------------------------------------------------
(* C9 *)

\* C9: whatever the predicate, the result of split holds every element of s
\* once and in order.
SplitKeepsContent ==
    last.op = "split" => Content(last.res) = iter(last.arg)

\* A split under a non-monotonic predicate of a tree of three or more.
SplitUnderNonMonotonic ==
    /\ last.op = "split"
    /\ ~Monotonic(last.p, iter(last.arg))
    /\ Size(last.arg) >= 3
    /\ last.res.tag # "Inside"

-----------------------------------------------------------------------------
(* C10 *)

\* C10: a predicate true of every prefix measure gets LeftOf and one false of
\* every prefix measure gets RightOf, for the empty tree as for the others.
NoBoundarySameVariant ==
    last.op = "split" =>
        LET es == iter(last.arg)
        IN  /\ (\A i \in 0..Len(es) : pred(last.p, Prefix(es, i)))
                   => last.res.tag = "LeftOf"
            /\ (\A i \in 0..Len(es) : ~pred(last.p, Prefix(es, i)))
                   => last.res.tag = "RightOf"

-----------------------------------------------------------------------------
(* C6 *)

\* The chunks of a + b when the junction chunks merge if and only if
\* `merges` says so.
JunctionChunks(merges) ==
    LET ca == iter(last.a)
        cb == iter(last.b)
        l == ca[Len(ca)]
        f == cb[1]
    IN  IF merges
        THEN SubSeq(ca, 1, Len(ca) - 1)
             \o <<[string |-> Concat(l.string, f.string),
                   char_count |-> l.char_count + f.char_count,
                   newline_count |-> l.newline_count + f.newline_count]>>
             \o Tail(cb)
        ELSE ca \o cb

\* The byte length of the last chunk of a plus that of the first chunk of b.
JunctionBytes ==
    StrLen(iter(last.a)[Len(iter(last.a))].string) + StrLen(iter(last.b)[1].string)

BothRopesNonEmpty == last.op = "rope_add" /\ last.a # Leaf /\ last.b # Leaf

\* C6 as stated: the junction chunks of two non-empty ropes merge exactly when
\* their combined byte length is below CHUNK_SIZE.
MergeBelowChunkSize ==
    BothRopesNonEmpty
    => iter(last.res) = JunctionChunks(JunctionBytes < CHUNK_SIZE)

\* C6 as the code has it: the junction chunks of two non-empty ropes merge
\* exactly when their combined byte length is at most CHUNK_SIZE.
MergeUpToChunkSize ==
    BothRopesNonEmpty
    => iter(last.res) = JunctionChunks(JunctionBytes <= CHUNK_SIZE)

\* Two ropes whose junction chunks fill a chunk exactly were concatenated.
JunctionFillsChunk ==
    /\ BothRopesNonEmpty
    /\ JunctionBytes = CHUNK_SIZE
    /\ Len(iter(last.res)) = Len(iter(last.a)) + Len(iter(last.b)) - 1

-----------------------------------------------------------------------------
(* C7 *)

\* C7: the text of a + b is the text of a followed by the text of b.
RopeAddPreservesText ==
    last.op = "rope_add"
    => Rope_to_string(last.res)
           = Concat(Rope_to_string(last.a), Rope_to_string(last.b))

\* Two non-empty ropes with different texts were concatenated, merging the
\* junction.
MergedDifferentTexts ==
    /\ BothRopesNonEmpty
    /\ JunctionBytes <= CHUNK_SIZE
    /\ Concat(Rope_to_string(last.a), Rope_to_string(last.b))
           # Concat(Rope_to_string(last.b), Rope_to_string(last.a))

-----------------------------------------------------------------------------
(* C8 *)

\* "Hello, world!!"
HelloWorld ==
    Str(<<"H", "e", "l", "l", "o", ",", " ", "w", "o", "r", "l", "d", "!", "!">>)

\* The rope main builds.
MainRope == Rope_add(Rope_from(Hello), Rope_from(World))

\* C8 as stated: the rope of "Hello" + the rope of ", world!!" reads
\* "Hello, world!!" and measures 14 bytes, and uncons of it gives an element
\* of 5 bytes with a remainder of 9.
HelloWorldScenario ==
    /\ last.op = "main" =>
           /\ last.printed = HelloWorld
           /\ measure(last.res).len = 14
    /\ (last.op = "uncons" /\ last.arg = MainRope) =>
           /\ last.res # None
           /\ StringMeasure_from(last.res[1][1]).len = 5
           /\ measure(last.res[1][2]).len = 9

\* C8 as the code has it: the two texts merge into one chunk, so uncons gives
\* the element "Hello, world!!" of 14 bytes and an empty remainder.
HelloWorldMergedScenario ==
    /\ last.op = "main" =>
           /\ last.printed = HelloWorld
           /\ measure(last.res).len = 14
    /\ (last.op = "uncons" /\ last.arg = MainRope) =>
           /\ last.res # None
           /\ last.res[1][1].string = HelloWorld
           /\ StringMeasure_from(last.res[1][1]).len = 14
           /\ last.res[1][2] = Leaf
           /\ measure(last.res[1][2]).len = 0

\* uncons was applied to the rope main builds.
UnconsOfMainRope ==
    /\ last.op = "uncons"
    /\ last.arg = MainRope
    /\ Rope_to_string(last.arg) = HelloWorld

====
